---- MODULE Spec2Model ----
(***************************************************************************)
(* Model of the tremor monitor (src/unnamed/part_000): the signal analysis *)
(* engine (calculateTremorMetrics, findDominantFrequency,                  *)
(* calculateSeverity, interpretLevel) and the session controller around it *)
(* (startMonitoring, beginMonitoring, handleMotion, stopMonitoring, the    *)
(* auto-stop timer, the wake lock, the history kept in localStorage).      *)
(*                                                                         *)
(* Number model.  The program computes with IEEE doubles; the model        *)
(* computes with fixed-point integers:                                     *)
(*   - accelerations, magnitudes, mean, rms: hundredths of m/s^2           *)
(*     (9.8 is 980, the rms thresholds 0.05 0.2 0.5 1.0 are 5 20 50 100);  *)
(*   - products of two accelerations, corr, power: 1/10000 (m/s^2)^2       *)
(*     (the power thresholds 0.01 0.05 are 100 500);                       *)
(*   - frequencies: tenths of Hz (the loop variable freq of                *)
(*     findDominantFrequency; frequency > 1 is frequency > 10);            *)
(*   - scores and severity levels: hundredths (10.0 is 1000, the           *)
(*     interpretLevel breakpoints 2 4 7 are 200 400 700).                  *)
(* A quotient is rounded to the unit and a square root is truncated to it. *)
(* The sum of the magnitudes carries the rounding error of the double      *)
(* summation (at most one unit either way, none for an exact sum), and a   *)
(* positive power stays positive.                                          *)
(* NaN, the value of 0/0, is a value of its own: every comparison with it  *)
(* is false and every arithmetic operation on it yields it.                *)
(***************************************************************************)
EXTENDS Integers, Sequences, FiniteSets, TLC

VARIABLES
    isMonitoring,     \* state.isMonitoring
    samples,          \* state.samples
    measurements,     \* state.measurements
    storage,          \* localStorage item 'parkinson_measurements'
    wakeLock,         \* state.wakeLock: Null or the sentinel it holds
    lockRequests,     \* navigator.wakeLock.request promises still pending
    locksHeld,        \* sentinels granted by the browser and not released
    listeners,        \* click listeners attached to dom.startBtn
    btnDisabled,      \* dom.startBtn.disabled
    permissionAsked,  \* a DeviceMotionEvent.requestPermission promise is pending
    motionListener,   \* handleMotion is registered for 'devicemotion'
    timers,           \* armed auto-stop timeouts, oldest first (the session that armed each)
    session,          \* number of sessions begun so far
    wave,             \* the movement the sensor reports during the current session
    today,            \* the calendar day of Date.now()
    exported,         \* history: what exportData did when it last ran on the history
                      \* as it is now (NoExport: no run since the history last changed)
    display,          \* the live values shown by updateRealTimeMetrics
    stopRuns,         \* history: how often stopMonitoring's body ran, per session
    lastStop,         \* history: what stopMonitoring's body did, until the next session begins
    appReady,         \* initializeApp has run
    rounding,         \* the rounding error the next summation of magnitudes suffers
    delivered,        \* history: the samples of the readings delivered to handleMotion
                      \* since the current session began, in arrival order
    call              \* history: the last call of an engine function, made directly
                      \* (engine specification) or by the current session

vars == << isMonitoring, samples, measurements, storage, wakeLock, lockRequests,
           locksHeld, listeners, btnDisabled, permissionAsked, motionListener,
           timers, session, wave, today, exported, display, stopRuns, lastStop, appReady,
           rounding, delivered, call >>

sessionVars == << isMonitoring, samples, measurements, storage, wakeLock, lockRequests,
                  locksHeld, listeners, btnDisabled, permissionAsked, motionListener,
                  timers, session, wave, today, exported, display, stopRuns, lastStop, appReady,
                  rounding, delivered >>

----------------------------------------------------------------------------
(* Numbers *)

\* The double NaN (0/0 at line 213 for an empty series).  Every genuine value it
\* is compared with (a mean, an rms, a score) is >= 0, so -1 is free to stand for it.
NaN == -1

Null == "null"

Abs(a) == IF a < 0 THEN -a ELSE a

\* The element of a one-element set.  The({F(v) : v \in {e}}) is F(e) with e
\* evaluated once, as a const holding e is in the program.
The(S) == CHOOSE v \in S : TRUE

\* a < b on doubles: false when either side is NaN.
Lt(a, b) == a # NaN /\ b # NaN /\ a < b

\* a > b on doubles.
Gt(a, b) == a # NaN /\ b # NaN /\ a > b

\* a / b for a >= 0, b >= 0: 0/0 is NaN, otherwise the quotient rounded to the unit.
Div(a, b) ==
    IF a = NaN \/ b = NaN THEN NaN
    ELSE IF b = 0 THEN NaN
    ELSE (2 * a + b) \div (2 * b)

\* a - b on doubles.
Sub(a, b) == IF a = NaN \/ b = NaN THEN NaN ELSE a - b

\* The largest r in lo..hi with r * r <= x, by bisection (lo * lo <= x < (hi+1) * (hi+1)).
RECURSIVE sqrtBetween(_, _, _)
sqrtBetween(x, lo, hi) ==
    IF lo = hi THEN lo
    ELSE LET mid == (lo + hi + 1) \div 2 IN
         IF mid * mid <= x THEN sqrtBetween(x, mid, hi) ELSE sqrtBetween(x, lo, mid - 1)

\* Math.sqrt of x >= 0, truncated to the unit.  Every x the model takes a root of
\* is below 2^30, so the root is below 2^15.
MathSqrt(x) == IF x = NaN THEN NaN ELSE sqrtBetween(x, 0, 32767)

\* Math.min / Math.max: NaN if either argument is NaN.
MathMin(a, b) == IF a = NaN \/ b = NaN THEN NaN ELSE IF a < b THEN a ELSE b

MathMax(a, b) == IF a = NaN \/ b = NaN THEN NaN ELSE IF a > b THEN a ELSE b

\* s[lo] + ... + s[hi].  Integer addition is associative, so the sum is taken by
\* halves, which keeps the evaluation shallow.
RECURSIVE sumRange(_, _, _)
sumRange(s, lo, hi) ==
    IF lo > hi THEN 0
    ELSE IF lo = hi THEN s[lo]
    ELSE The({sumRange(s, lo, mid) + sumRange(s, mid + 1, hi) : mid \in {(lo + hi) \div 2}})

\* Array.prototype.reduce((a, b) => a + b, 0)
reduceSum(s) == The({sumRange(array, 1, Len(array)) : array \in {s}})

\* An array built by map: the function, evaluated once for every index.
Array(f) == SubSeq(f, 1, Len(f))

\* Array.prototype.slice(-k): the last k elements (all of them when there are fewer).
SliceLast(s, k) == IF Len(s) <= k THEN s ELSE SubSeq(s, Len(s) - k + 1, Len(s))

----------------------------------------------------------------------------
(* The engine *)

SAMPLE_RATE == 100

\* A faulty lag: the period taken at twice the sample rate.
PeriodAtDoubleRate(freq) == (2 * SAMPLE_RATE * 10) \div freq

\* Math.floor(SAMPLE_RATE / (freq / 10)), freq in tenths of Hz.  For freq in 30..80
\* the double quotient is an integer only at 40 and 50, where it is exact.
PeriodOf(freq) == (SAMPLE_RATE * 10) \div freq

\* The inner loop of findDominantFrequency: corr, the sum over i = 0 .. n-period-1
\* of Math.abs(data[i] * data[i + period]), here over i = lo .. hi, by halves.
RECURSIVE corrRange(_, _, _, _)
corrRange(data, period, lo, hi) ==
    IF lo > hi THEN 0
    ELSE IF lo = hi THEN Abs(data[lo] * data[lo + period])
    ELSE The({corrRange(data, period, lo, mid) + corrRange(data, period, mid + 1, hi) :
                 mid \in {(lo + hi) \div 2}})

Correlation(data, period) == corrRange(data, period, 1, Len(data) - period)

\* maxCorr / n at line 261, for n >= 50.  maxCorr is a sum of absolute values: it
\* is 0 or positive, and the double quotient of a positive maxCorr is positive (it
\* could underflow only below 1e-320).  The rounding to the unit keeps that.
powerOf(maxCorr, n) == IF maxCorr > 0 THEN MathMax(1, Div(maxCorr, n)) ELSE Div(maxCorr, n)

\* The candidates the scan passes over on n samples: if (period >= n) continue.
skippedCandidates(n) == {freq \in 30..80 : PeriodOf(freq) >= n}

\* The indices of data the inner loop (lines 248-250) reads for one lag, counted
\* from 0 as the program counts them: i and i + period for i = 0 .. n-period-1.
readIndices(n, period) == UNION {{i, i + period} : i \in 0..(n - period - 1)}

\* A faulty scan: corr >= maxCorr, so that of several frequencies with the same
\* correlation the last one is kept instead of the first.
RECURSIVE scanKeepingLast(_, _, _, _, _)
scanKeepingLast(corrAt, n, freq, maxCorr, dominantFreq) ==
    IF freq > 80 THEN [frequency |-> dominantFreq, power |-> powerOf(maxCorr, n)]
    ELSE LET period == PeriodOf(freq) IN
         IF period >= n
         THEN scanKeepingLast(corrAt, n, freq + 1, maxCorr, dominantFreq)
         ELSE IF corrAt[period] >= maxCorr
              THEN scanKeepingLast(corrAt, n, freq + 1, corrAt[period], freq)
              ELSE scanKeepingLast(corrAt, n, freq + 1, maxCorr, dominantFreq)

\* The scan over freq = 30 .. 80: corrAt[p] is the correlation at lag p.
RECURSIVE scanFrequencies(_, _, _, _, _)
scanFrequencies(corrAt, n, freq, maxCorr, dominantFreq) ==
    IF freq > 80 THEN [frequency |-> dominantFreq, power |-> powerOf(maxCorr, n)]
    ELSE LET period == PeriodOf(freq) IN
         IF period >= n
         THEN scanFrequencies(corrAt, n, freq + 1, maxCorr, dominantFreq)
         ELSE IF corrAt[period] > maxCorr
              THEN scanFrequencies(corrAt, n, freq + 1, corrAt[period], freq)
              ELSE scanFrequencies(corrAt, n, freq + 1, maxCorr, dominantFreq)

\* A faulty threshold: n < 40.
insufficientBelow40(n) == n < 40

\* if (n < 50) return { frequency: 0, power: 0 }
insufficientData(n) == n < 50

\* corrAt[p] is the correlation of data at lag p, for the lags of the scan.  The
\* loop computes it anew for every freq with that lag; the values are the same.
correlations(data) ==
    [p \in {PeriodOf(f) : f \in 30..80} |->
        IF p >= Len(data) THEN 0 ELSE Correlation(data, p)]

\* A faulty result: power is maxCorr, not divided by n.
findDominantFrequencyUnnormalized(data) ==
    LET n == Len(data) IN
    IF insufficientData(n) THEN [frequency |-> 0, power |-> 0]
    ELSE The({[frequency |-> found.frequency, power |-> found.power * n] :
                 found \in {The({scanFrequencies(corrAt, n, 30, 0, 0) :
                                    corrAt \in {correlations(data)}})}})

findDominantFrequency(data) ==
    LET n == Len(data) IN
    IF insufficientData(n) THEN [frequency |-> 0, power |-> 0]
    ELSE The({scanFrequencies(corrAt, n, 30, 0, 0) : corrAt \in {correlations(data)}})

\* A faulty step function: the scores of the third and the fourth step exchanged.
amplitudeScoreSwapped(rms) ==
    IF Lt(rms, 5) THEN 0
    ELSE IF Lt(rms, 20) THEN 300
    ELSE IF Lt(rms, 50) THEN 800
    ELSE IF Lt(rms, 100) THEN 600
    ELSE 1000

amplitudeScore(rms) ==
    IF Lt(rms, 5) THEN 0
    ELSE IF Lt(rms, 20) THEN 300
    ELSE IF Lt(rms, 50) THEN 600
    ELSE IF Lt(rms, 100) THEN 800
    ELSE 1000

frequencyScore(frequency) == IF Gt(frequency, 10) THEN 1000 ELSE 0

powerScore(power) ==
    IF Lt(power, 100) THEN 0
    ELSE IF Lt(power, 500) THEN 500
    ELSE 1000

\* A faulty weighting: 0.3 for the frequency score, so that the weights sum to 1.2.
weightedScoreHeavyFrequency(rms, frequency, power) ==
    (amplitudeScore(rms) * 8) \div 10
        + (frequencyScore(frequency) * 3) \div 10
        + (powerScore(power) * 1) \div 10

\* (amplitudeScore * 0.8) + (frequencyScore * 0.1) + (powerScore * 0.1)
weightedScore(rms, frequency, power) ==
    (amplitudeScore(rms) * 8) \div 10
        + (frequencyScore(frequency) * 1) \div 10
        + (powerScore(power) * 1) \div 10

\* A faulty score: the amplitude score taken unweighted, and no clamp.
unweightedSeverity(rms, frequency, power) ==
    amplitudeScore(rms) + (frequencyScore(frequency) * 1) \div 10
        + (powerScore(power) * 1) \div 10

\* Math.min(10, Math.max(0, score))
calculateSeverity(rms, frequency, power) ==
    MathMin(1000, MathMax(0, weightedScore(rms, frequency, power)))

LabelMinimal == "Temblor minimo o ausente"
LabelMild == "Temblor leve"
LabelModerate == "Temblor moderado"
LabelSignificant == "Temblor significativo"

\* Faulty bands: level <= 2 in the first one.
interpretLevelInclusive(level) ==
    IF Lt(level, 201) THEN LabelMinimal
    ELSE IF Lt(level, 400) THEN LabelMild
    ELSE IF Lt(level, 700) THEN LabelModerate
    ELSE LabelSignificant

interpretLevel(level) ==
    IF Lt(level, 200) THEN LabelMinimal
    ELSE IF Lt(level, 400) THEN LabelMild
    ELSE IF Lt(level, 700) THEN LabelModerate
    ELSE LabelSignificant

\* sampleData.map(s => s.magnitude)
magnitudesOf(sampleData) == Array([i \in 1..Len(sampleData) |-> sampleData[i].magnitude])

\* The error of the double sum magnitudes.reduce((a, b) => a + b, 0): a double
\* addition rounds its result, and the sum of n equal magnitudes m comes out
\* above, below or at n * m (200 times 9.8 sums to 200 * 9.799999999999969, 256
\* times to 256 * 9.800000000000008, 61 times to 61 * 9.8).  The model leaves the
\* sign of the error open and takes one unit for its size.
RoundingErrors == {-1, 0, 1}

\* The sum of no term, of one term and of zeros is exact.
sumIsExact(magnitudes) == Len(magnitudes) <= 1 \/ reduceSum(magnitudes) = 0

\* mean, the average of the magnitudes (NaN for none).
meanOf(magnitudes) ==
    IF sumIsExact(magnitudes)
    THEN Div(reduceSum(magnitudes), Len(magnitudes))
    ELSE Div(reduceSum(magnitudes), Len(magnitudes)) + rounding

\* magnitudes.map(m => m - mean)
filteredBy(magnitudes, mean) ==
    Array([i \in 1..Len(magnitudes) |-> Sub(magnitudes[i], mean)])

\* Math.sqrt(filtered.reduce((sum, val) => sum + val * val, 0) / filtered.length)
rmsOf(filtered) ==
    MathSqrt(Div(reduceSum(Array([i \in 1..Len(filtered) |-> filtered[i] * filtered[i]])),
                 Len(filtered)))

metricsOf(rms, found) ==
    [amplitudeRMS |-> rms,
     dominantFrequency |-> found.frequency,
     tremorPower |-> found.power,
     severityLevel |-> calculateSeverity(rms, found.frequency, found.power)]

\* Each intermediate result (magnitudes, mean, filtered, rms, { frequency, power })
\* is computed once and bound to its name, as the consts of the function are.
detrended(magnitudes) ==
    The({filteredBy(magnitudes, mean) : mean \in {meanOf(magnitudes)}})

analysisOf(filtered) ==
    The({metricsOf(rms, found) :
            rms \in {rmsOf(filtered)}, found \in {findDominantFrequency(filtered)}})

calculateTremorMetrics(sampleData) ==
    The({analysisOf(filtered) :
            filtered \in {detrended(magnitudes) :
                             magnitudes \in {magnitudesOf(sampleData)}}})

----------------------------------------------------------------------------
(* The history: state.measurements and localStorage *)

NoItem == [item |-> FALSE]

NumberFields == {"timestamp", "amplitudeRMS", "dominantFrequency", "tremorPower", "severityLevel"}

\* The null that JSON.stringify writes for a number that is NaN: like NaN a value
\* of its own, and no number.
JSONNull == -2

\* JSON.stringify of one record: a NaN number is written as null.
stringifyRecord(r) ==
    [f \in DOMAIN r |-> IF f \in NumberFields /\ r[f] = NaN THEN JSONNull ELSE r[f]]

JSONStringify(ms) == [item |-> TRUE, text |-> [i \in 1..Len(ms) |-> stringifyRecord(ms[i])]]

JSONParse(saved) == saved.text

\* new Date(m.timestamp).toDateString(): timestamps are kept as day numbers.
toDateString(timestamp) == timestamp

RECURSIVE filterToday(_, _)
filterToday(ms, day) ==
    IF ms = << >> THEN << >>
    ELSE IF toDateString(Head(ms).timestamp) = day
         THEN << Head(ms) >> \o filterToday(Tail(ms), day)
         ELSE filterToday(Tail(ms), day)

\* loadMeasurements(): the value of state.measurements after it, given the one before.
loadMeasurements(current, saved, day) ==
    IF saved.item THEN filterToday(JSONParse(saved), day) ELSE current

\* saveMeasurement(data): the new state.measurements and the new localStorage item.
pushMeasurement(current, data) == Append(current, data)

saveMeasurement(current, data) ==
    The({[measurements |-> pushed, storage |-> JSONStringify(pushed)] :
            pushed \in {pushMeasurement(current, data)}})

ErrorInterpretation == "Error: Medicion muy corta"

failedMeasurement(day) ==
    [timestamp |-> day, error |-> TRUE, interpretation |-> ErrorInterpretation]

\* { timestamp: Date.now(), ...metrics, interpretation: interpretLevel(...) }
measurementOf(metrics, day) ==
    [timestamp |-> day,
     amplitudeRMS |-> metrics.amplitudeRMS,
     dominantFrequency |-> metrics.dominantFrequency,
     tremorPower |-> metrics.tremorPower,
     severityLevel |-> metrics.severityLevel,
     interpretation |-> interpretLevel(metrics.severityLevel)]

\* m.<field>.toFixed(...) evaluates: the field is there and is a number (NaN
\* included).  On undefined or null the property access raises a TypeError.
hasToFixed(m, field) == field \in DOMAIN m /\ m[field] # JSONNull

\* The fields line 568 formats, in the order the template literal evaluates them.
RowFields == {"severityLevel", "dominantFrequency", "amplitudeRMS"}

\* The CSV row of record m can be written.
rowIsWritten(m) == \A field \in RowFields : hasToFixed(m, field)

\* The rows forEach (lines 563-569) appends before it ends or a row raises.
RECURSIVE rowsWritten(_)
rowsWritten(ms) ==
    IF ms = << >> \/ ~rowIsWritten(Head(ms)) THEN 0 ELSE 1 + rowsWritten(Tail(ms))

\* exportData() on state.measurements = ms: an alert on an empty history, else the
\* rows, the statistics (numbers whenever every row was written) and the download.
exportData(ms) ==
    IF Len(ms) = 0
    THEN [ran |-> TRUE, records |-> 0, alerted |-> TRUE, raised |-> FALSE,
          rows |-> 0, downloaded |-> FALSE]
    ELSE \* an uncaught TypeError ends the handler at the row that raised it
         [ran |-> TRUE, records |-> Len(ms), alerted |-> FALSE,
          raised |-> rowsWritten(ms) < Len(ms),
          rows |-> rowsWritten(ms),
          downloaded |-> rowsWritten(ms) = Len(ms)]

----------------------------------------------------------------------------
(* Inputs *)

\* 200 * sin(2 * pi * k / 20), k = 0 .. 19, rounded to the unit: one period of a
\* 5 Hz oscillation of amplitude 2 m/s^2 sampled at 100 Hz.
SinTable ==
    << 0, 62, 118, 162, 190, 200, 190, 162, 118, 62,
       0, -62, -118, -162, -190, -200, -190, -162, -118, -62 >>

WaveNames == {"still", "tremor", "slight"}

\* The movements the sensor reports in the session specification.
SessionWaves == {"still", "tremor"}

\* The z acceleration of sample number k (from 0) of a movement; x and y are 0.
Wave(w, k) ==
    CASE w = "still" -> 980
      [] w = "tremor" -> 980 + SinTable[(k % 20) + 1]
      [] w = "slight" -> 980 + (IF (k \div 4) % 2 = 0 THEN 10 ELSE -10)

\* handleMotion's sample for an event whose accelerationIncludingGravity is (x, y, z).
\* The program never reads a sample's x, y and z again; the model keeps its magnitude.
sampleOf(x, y, z) == [magnitude |-> MathSqrt(x * x + y * y + z * z)]

\* The first n samples of a movement.
SeriesOf(w, n) == Array([k \in 1..n |-> sampleOf(0, 0, Wave(w, k - 1))])

\* Detrended series handed to findDominantFrequency directly.
DataKinds == {"zero", "constant", "sine", "square", "pulse"}

DataOf(kind, n) ==
    Array([k \in 1..n |->
        CASE kind = "zero" -> 0
          [] kind = "constant" -> 7
          [] kind = "sine" -> SinTable[((k - 1) % 20) + 1]
          [] kind = "square" -> IF ((k - 1) \div 6) % 2 = 0 THEN 30 ELSE -30
          [] kind = "pulse" -> IF k % 15 = 1 THEN 40 ELSE 0])

\* Bounds of the engine specification.
MaxRms == 120
MaxLevel == 1000
MaxSeries == 60

RmsValues == (0..MaxRms) \cup {NaN}
FrequencyValues == {0, 10, 11, 30, 48, 80}
PowerValues == {0, 1, 99, 100, 101, 499, 500, 501}
LevelValues == 0..MaxLevel
\* Every length up to MaxSeries, and the 200 and 300 samples of a two-second and
\* of a three-second recording.
SeriesLengths == (0..MaxSeries) \cup {200, 300}

----------------------------------------------------------------------------
(* State *)

NoCall == [op |-> "none"]
NoDisplay == [shown |-> FALSE]
NoStop == [session |-> 0]
NoExport == [ran |-> FALSE]

\* Bounds of the session specification.
MaxSessions == 2
MaxSamples == 105
MaxLaterSamples == 6

\* The motion events explored in session s: the first session is followed to the
\* end of a full measurement, the later ones over their first events.
sampleLimit(s) == IF s = 1 THEN MaxSamples ELSE MaxLaterSamples

\* Records an earlier run of the application may have left in localStorage:
\* yesterday's (day 0) and today's (day 1).
PriorRecords ==
    << [timestamp |-> 0, amplitudeRMS |-> 7, dominantFrequency |-> 48,
        tremorPower |-> 40, severityLevel |-> 340, interpretation |-> LabelMild],
       failedMeasurement(1) >>

\* localStorage when the page loads: no item, or the item an earlier run wrote.
PriorStorage == {NoItem, JSONStringify(PriorRecords)}

InitSession ==
    /\ isMonitoring = FALSE
    /\ samples = << >>
    /\ measurements = << >>
    /\ storage \in PriorStorage
    /\ wakeLock = Null
    /\ lockRequests = 0
    /\ locksHeld = 0
    /\ listeners = {}
    /\ btnDisabled = FALSE
    /\ permissionAsked = FALSE
    /\ motionListener = FALSE
    /\ timers = << >>
    /\ session = 0
    /\ wave = "still"
    /\ today = 1
    /\ exported = NoExport
    /\ rounding \in RoundingErrors
    /\ delivered = << >>
    /\ display = NoDisplay
    /\ stopRuns = [s \in 0..MaxSessions |-> 0]
    /\ lastStop = NoStop
    /\ appReady = FALSE

----------------------------------------------------------------------------
(* Direct calls of the engine's functions *)

InitEngine ==
    /\ InitSession
    /\ storage = NoItem
    /\ call = NoCall

CallSeverity ==
    /\ call = NoCall
    /\ \E rms \in RmsValues, frequency \in FrequencyValues, power \in PowerValues :
          call' = [op |-> "calculateSeverity", rms |-> rms, frequency |-> frequency,
                   power |-> power, result |-> calculateSeverity(rms, frequency, power)]
    /\ UNCHANGED sessionVars

CallInterpret ==
    /\ call = NoCall
    /\ \E level \in LevelValues :
          call' = [op |-> "interpretLevel", level |-> level, result |-> interpretLevel(level)]
    /\ UNCHANGED sessionVars

CallFindDominantFrequency ==
    /\ call = NoCall
    /\ \E kind \in DataKinds, n \in SeriesLengths :
          call' = [op |-> "findDominantFrequency", kind |-> kind, data |-> DataOf(kind, n),
                   result |-> findDominantFrequency(DataOf(kind, n))]
    /\ UNCHANGED sessionVars

CallAnalyze ==
    /\ call = NoCall
    /\ \E w \in WaveNames, n \in SeriesLengths :
          call' = [op |-> "calculateTremorMetrics", wave |-> w, input |-> SeriesOf(w, n),
                   rounding |-> rounding,
                   result |-> calculateTremorMetrics(SeriesOf(w, n))]
    /\ UNCHANGED sessionVars

NextEngine == CallSeverity \/ CallInterpret \/ CallFindDominantFrequency \/ CallAnalyze

EngineSpec == InitEngine /\ [][NextEngine]_vars

----------------------------------------------------------------------------
(* The session controller *)

\* loadMeasurements() as a step: state.measurements is replaced by today's stored records.
initializeApp ==
    /\ ~appReady
    /\ appReady' = TRUE
    /\ measurements' = loadMeasurements(measurements, storage, today)
    /\ listeners' = listeners \cup {"startMonitoring"}
    \* if (!window.DeviceMotionEvent) dom.startBtn.disabled = true
    /\ \E supported \in BOOLEAN : btnDisabled' = IF supported THEN btnDisabled ELSE TRUE
    /\ UNCHANGED << isMonitoring, samples, storage, wakeLock, lockRequests, locksHeld,
                    permissionAsked, motionListener, timers, session, wave, today, exported, rounding,
                    delivered,
                    display, stopRuns, lastStop, call >>

\* A faulty beginMonitoring: state.samples is not emptied.
beginMonitoringKeepingSamples ==
    /\ \E inNavigator \in BOOLEAN :
          lockRequests' = IF inNavigator THEN lockRequests + 1 ELSE lockRequests
    /\ listeners' = (listeners \ {"startMonitoring"}) \cup {"stopMonitoring"}
    /\ isMonitoring' = TRUE
    /\ btnDisabled' = FALSE
    /\ motionListener' = TRUE
    /\ session' = session + 1
    /\ timers' = Append(timers, session + 1)
    /\ \E w \in SessionWaves : wave' = w
    /\ permissionAsked' = FALSE
    /\ lastStop' = NoStop
    /\ delivered' = << >>
    /\ call' = NoCall
    /\ UNCHANGED << samples, measurements, storage, wakeLock, locksHeld, today, exported, rounding,
                    display, stopRuns, appReady >>

\* A faulty beginMonitoring: the click listener of the button is left as it was.
beginMonitoringKeepingListener ==
    /\ \E inNavigator \in BOOLEAN :
          lockRequests' = IF inNavigator THEN lockRequests + 1 ELSE lockRequests
    /\ isMonitoring' = TRUE
    /\ samples' = << >>
    /\ btnDisabled' = FALSE
    /\ motionListener' = TRUE
    /\ session' = session + 1
    /\ timers' = Append(timers, session + 1)
    /\ \E w \in SessionWaves : wave' = w
    /\ permissionAsked' = FALSE
    /\ lastStop' = NoStop
    /\ delivered' = << >>
    /\ call' = NoCall
    /\ UNCHANGED << listeners, measurements, storage, wakeLock, locksHeld, today, exported,
                    rounding, display, stopRuns, appReady >>

\* beginMonitoring as reassigned at line 671: requestWakeLock(), the listener swap,
\* then the original beginMonitoring (lines 79-106).
beginMonitoring ==
    /\ \E inNavigator \in BOOLEAN :
          lockRequests' = IF inNavigator THEN lockRequests + 1 ELSE lockRequests
    /\ listeners' = (listeners \ {"startMonitoring"}) \cup {"stopMonitoring"}
    /\ isMonitoring' = TRUE
    /\ samples' = << >>
    /\ btnDisabled' = FALSE
    /\ motionListener' = TRUE
    /\ session' = session + 1
    /\ timers' = Append(timers, session + 1)
    /\ \E w \in SessionWaves : wave' = w
    /\ permissionAsked' = FALSE
    /\ lastStop' = NoStop
    /\ delivered' = << >>
    /\ call' = NoCall
    /\ UNCHANGED << measurements, storage, wakeLock, locksHeld, today, exported, rounding,
                    display, stopRuns, appReady >>

\* A click dispatched to startMonitoring where DeviceMotionEvent.requestPermission
\* is not a function: beginMonitoring() at once.
ClickStart ==
    /\ appReady /\ ~btnDisabled /\ "startMonitoring" \in listeners
    /\ session < MaxSessions
    /\ beginMonitoring

\* A click dispatched to startMonitoring where permission must be requested (iOS).
ClickStartAskPermission ==
    /\ appReady /\ ~btnDisabled /\ "startMonitoring" \in listeners
    /\ session < MaxSessions
    /\ btnDisabled' = TRUE
    /\ permissionAsked' = TRUE
    /\ UNCHANGED << isMonitoring, samples, measurements, storage, wakeLock, lockRequests,
                    locksHeld, listeners, motionListener, timers, session, wave, today, exported, rounding,
                    delivered,
                    display, stopRuns, lastStop, appReady, call >>

\* The permission promise resolves with 'granted'.
PermissionGranted ==
    /\ permissionAsked
    /\ beginMonitoring

\* The permission promise resolves with another state, or rejects.
PermissionRefused ==
    /\ permissionAsked
    /\ permissionAsked' = FALSE
    /\ btnDisabled' = FALSE
    /\ UNCHANGED << isMonitoring, samples, measurements, storage, wakeLock, lockRequests,
                    locksHeld, listeners, motionListener, timers, session, wave, today, exported, rounding,
                    delivered,
                    display, stopRuns, lastStop, appReady, call >>

\* await navigator.wakeLock.request('screen') resolves: state.wakeLock = the sentinel.
WakeLockGranted ==
    /\ lockRequests > 0
    /\ lockRequests' = lockRequests - 1
    /\ wakeLock' = "sentinel"
    /\ locksHeld' = locksHeld + 1
    /\ UNCHANGED << isMonitoring, samples, measurements, storage, listeners, btnDisabled,
                    permissionAsked, motionListener, timers, session, wave, today, exported, rounding,
                    delivered,
                    display, stopRuns, lastStop, appReady, call >>

\* The request rejects: the catch block logs it.
WakeLockRejected ==
    /\ lockRequests > 0
    /\ lockRequests' = lockRequests - 1
    /\ UNCHANGED << isMonitoring, samples, measurements, storage, wakeLock, locksHeld,
                    listeners, btnDisabled, permissionAsked, motionListener, timers,
                    session, wave, today, exported, rounding,
                    delivered, display, stopRuns, lastStop, appReady, call >>

\* Number.prototype.toFixed(1) of a level kept in hundredths: tenths, half up.
toFixed1(level) == (level + 5) \div 10

\* A faulty minimum: recentSamples.length < 10.
previewTooShortBelow10(n) == n < 10

\* if (recentSamples.length < 20) return
previewTooShort(n) == n < 20

\* The call of calculateTremorMetrics that updateRealTimeMetrics() makes, if any,
\* given the last call before it.
previewCall(all, last) ==
    LET recentSamples == SliceLast(all, 100) IN
    IF previewTooShort(Len(recentSamples)) THEN last
    ELSE [op |-> "calculateTremorMetrics", caller |-> "updateRealTimeMetrics",
          input |-> recentSamples, collected |-> Len(all)]

\* updateRealTimeMetrics(): the values shown after it, given those shown before.
updateRealTimeMetrics(all, shown) ==
    LET recentSamples == SliceLast(all, 100) IN
    IF previewTooShort(Len(recentSamples)) THEN shown
    ELSE The({[shown |-> TRUE,
               tremorLevel |-> toFixed1(metrics.severityLevel),
               frequency |-> metrics.dominantFrequency,
               amplitude |-> metrics.amplitudeRMS] :
                 metrics \in {calculateTremorMetrics(recentSamples)}})

\* A devicemotion event delivered to handleMotion, with an acceleration reading:
\* the reading that follows those delivered before it in the session.
HandleMotion ==
    /\ motionListener
    /\ Len(delivered) < sampleLimit(session)
    /\ \E sample \in {sampleOf(0, 0, Wave(wave, Len(delivered)))} :
       /\ delivered' = Append(delivered, sample)
       /\ IF ~isMonitoring
          THEN UNCHANGED << samples, display, rounding, call >>
          ELSE \E pushed \in {Append(samples, sample)} :
               /\ samples' = pushed
               /\ display' = IF Len(pushed) % 5 = 0
                             THEN updateRealTimeMetrics(pushed, display)
                             ELSE display
               /\ call' = IF Len(pushed) % 5 = 0 THEN previewCall(pushed, call) ELSE call
               /\ IF Len(pushed) % 5 = 0 /\ ~previewTooShort(Len(pushed))
                  THEN rounding' \in RoundingErrors
                  ELSE UNCHANGED rounding
    /\ UNCHANGED << isMonitoring, measurements, storage, wakeLock, lockRequests, locksHeld,
                    listeners, btnDisabled, permissionAsked, motionListener, timers,
                    session, wave, today, exported, stopRuns, lastStop, appReady >>

\* A devicemotion event whose accelerationIncludingGravity is null: if (!acc) return.
HandleMotionWithoutReading ==
    /\ motionListener
    /\ UNCHANGED vars

\* A faulty threshold: state.samples.length >= 100.
longEnoughFrom100(n) == n >= 100

\* if (state.samples.length > 100)
longEnough(n) == n > 100

\* What stopMonitoring's body appends to the history.
finalRecord(sampleData, day) ==
    IF longEnough(Len(sampleData))
    THEN measurementOf(calculateTremorMetrics(sampleData), day)
    ELSE failedMeasurement(day)

\* stopMonitoring as reassigned at line 680: the wake lock release, the listener
\* swap, then the original stopMonitoring (lines 167-206) with saveMeasurement and
\* updateHistory (loadMeasurements).  caller is who ran it: the click listener
\* of the button or the callback of a timeout.
stopMonitoring(caller) ==
    \E data \in {finalRecord(samples, today)} :
    \E saved \in {saveMeasurement(measurements, data)} :
    /\ wakeLock' = Null
    /\ locksHeld' = IF wakeLock # Null THEN locksHeld - 1 ELSE locksHeld
    /\ listeners' = (listeners \ {"stopMonitoring"}) \cup {"startMonitoring"}
    /\ isMonitoring' = FALSE
    /\ motionListener' = FALSE
    /\ storage' = saved.storage
    /\ measurements' = loadMeasurements(saved.measurements, saved.storage, today)
    /\ stopRuns' = [stopRuns EXCEPT ![session] = @ + 1]
    /\ IF longEnough(Len(samples))
       THEN /\ rounding' \in RoundingErrors
            /\ call' = [op |-> "calculateTremorMetrics", caller |-> "stopMonitoring",
                        input |-> samples, collected |-> Len(samples)]
       ELSE UNCHANGED << rounding, call >>
    /\ lastStop' = [session |-> session, by |-> caller, armed |-> timers,
                    count |-> Len(samples),
                    analyzed |-> longEnough(Len(samples)), input |-> samples,
                    record |-> data, before |-> storage]
    /\ exported' = NoExport
    /\ UNCHANGED << samples, lockRequests, btnDisabled, permissionAsked, session, wave,
                    today, delivered, display, appReady >>

\* A click dispatched to stopMonitoring.
ClickStop ==
    /\ appReady /\ ~btnDisabled /\ "stopMonitoring" \in listeners
    /\ stopMonitoring("click")
    /\ UNCHANGED timers

\* The delay of the oldest armed timeout has passed: the browser takes it off its
\* timer list and runs its callback.
timeoutElapses ==
    /\ timers # << >>
    /\ timers' = Tail(timers)

\* A faulty timeout: stopMonitoring() whether or not a session is monitoring.
TimerFiresUnguarded ==
    /\ timeoutElapses
    /\ stopMonitoring("timeout")

\* The oldest auto-stop timeout fires: if (state.isMonitoring) stopMonitoring().
TimerFires ==
    /\ timeoutElapses
    /\ IF isMonitoring
       THEN stopMonitoring("timeout")
       ELSE UNCHANGED << isMonitoring, samples, measurements, storage, wakeLock,
                         lockRequests, locksHeld, listeners, btnDisabled, permissionAsked,
                         motionListener, session, wave, today, exported, rounding,
                    delivered, display, stopRuns,
                         lastStop, appReady, call >>

\* A click on dom.exportBtn, dispatched to exportData (listener of line 652).
ClickExport ==
    /\ appReady
    /\ exported' = exportData(measurements)
    /\ UNCHANGED << isMonitoring, samples, measurements, storage, wakeLock, lockRequests,
                    locksHeld, listeners, btnDisabled, permissionAsked, motionListener,
                    timers, session, wave, today, display, stopRuns, lastStop, appReady,
                    rounding, delivered, call >>

Init == InitSession /\ call = NoCall

Next ==
    \/ initializeApp
    \/ ClickStart
    \/ ClickStartAskPermission
    \/ PermissionGranted
    \/ PermissionRefused
    \/ WakeLockGranted
    \/ WakeLockRejected
    \/ HandleMotion
    \/ HandleMotionWithoutReading
    \/ ClickStop
    \/ TimerFires
    \/ ClickExport

Spec == Init /\ [][Next]_vars

\* The timeout set by beginMonitoring fires once its delay has passed.  The step
\* that takes a timeout off the list is the TimerFires step, and TimerFires is
\* enabled exactly when a timeout is armed.
FairSpec == Spec /\ WF_timers(timeoutElapses)

----------------------------------------------------------------------------
(* Claims *)

\* C1: for every rms >= 0 and every frequency and power, calculateSeverity returns
\* a value in [0,10] (0 .. 1000 hundredths), and the severityLevel of every Metrics
\* returned by calculateTremorMetrics is in [0,10].
C1_SeverityInRange ==
    /\ (call.op = "calculateSeverity" /\ call.rms # NaN) => call.result \in 0..1000
    /\ call.op = "calculateTremorMetrics" => call.result.severityLevel \in 0..1000

\* The largest rms with an in-band frequency and a high power: the score is 10.
C1_Witness ==
    /\ call.op = "calculateSeverity"
    /\ call.rms = 120 /\ call.frequency = 48 /\ call.power = 501
    /\ call.result = 1000

\* The part of C1 about the history, under Spec: every non-error record in
\* state.measurements and in localStorage has its severityLevel in [0,10].
RecordsInRange(ms) ==
    \A i \in DOMAIN ms : "error" \notin DOMAIN ms[i] => ms[i].severityLevel \in 0..1000

C1_RecordsInRange ==
    /\ RecordsInRange(measurements)
    /\ storage.item => RecordsInRange(JSONParse(storage))

AllZeroMetrics ==
    [amplitudeRMS |-> 0, dominantFrequency |-> 0, tremorPower |-> 0, severityLevel |-> 0]

\* C2: an empty sample series passed directly to calculateTremorMetrics returns
\* {amplitudeRMS: 0, dominantFrequency: 0, tremorPower: 0, severityLevel: 0}.
C2_EmptySeriesAllZero ==
    (call.op = "calculateTremorMetrics" /\ call.input = << >>) =>
        call.result = AllZeroMetrics

\* What the call returns for the empty series: the mean is 0/0, so amplitudeRMS is
\* NaN, no comparison of calculateSeverity holds and the amplitude score is 10.0.
C2_Witness ==
    /\ call.op = "calculateTremorMetrics" /\ call.input = << >>
    /\ call.result = [amplitudeRMS |-> NaN, dominantFrequency |-> 0, tremorPower |-> 0,
                      severityLevel |-> 800]

\* Session s has been begun and has ended.
Ended(s) == s <= session /\ ~(s = session /\ isMonitoring)

\* stopMonitoring's body has run once for every ended session and not at all for
\* the session still monitoring, nor for one not begun.
StopOncePerSession ==
    /\ stopRuns[0] = 0
    /\ \A s \in 1..MaxSessions : stopRuns[s] = IF Ended(s) THEN 1 ELSE 0

\* Every run of stopMonitoring's body ends the session and adds one record to the history.
StopAddsOneRecord ==
    [][stopRuns' # stopRuns =>
          /\ isMonitoring /\ ~isMonitoring'
          /\ Len(measurements') = Len(measurements) + 1
          /\ Len(JSONParse(storage')) = Len(measurements')]_vars

\* C3: over any interleaving of clicks, motion events and timer firings, every
\* session that began is eventually ended and stopMonitoring's body runs exactly
\* once for it, adding exactly one record to the history.
C3_EverySessionEndsOnce ==
    /\ []StopOncePerSession
    /\ StopAddsOneRecord
    /\ (isMonitoring ~> ~isMonitoring)

\* A second session has been ended by the timeout armed by the first one.
C3_Witness ==
    /\ session = 2 /\ ~isMonitoring /\ stopRuns[1] = 1 /\ stopRuns[2] = 1
    /\ timers = << 2 >>

MetricsFields == {"amplitudeRMS", "dominantFrequency", "tremorPower", "severityLevel"}

\* C4: a session that ends with at most 100 samples does not invoke
\* calculateTremorMetrics and appends a record with error = true and none of the
\* Metrics fields; one that ends with more than 100 samples appends a record with
\* the four Metrics fields and no error flag.
C4_ShortSessionIsError ==
    lastStop # NoStop =>
        /\ measurements # << >> /\ measurements[Len(measurements)] = lastStop.record
        /\ IF lastStop.count <= 100
           THEN /\ ~lastStop.analyzed
                /\ "error" \in DOMAIN lastStop.record /\ lastStop.record.error = TRUE
                /\ DOMAIN lastStop.record \cap MetricsFields = {}
           ELSE /\ lastStop.analyzed
                /\ MetricsFields \subseteq DOMAIN lastStop.record
                /\ "error" \notin DOMAIN lastStop.record

\* A session ended with exactly 100 samples: the error record.
C4_Witness ==
    /\ lastStop # NoStop /\ lastStop.count = 100
    /\ lastStop.record = failedMeasurement(today)

\* A session ended with 101 samples of a tremor: a Metrics record.
C4_WitnessAnalyzed ==
    /\ lastStop # NoStop /\ lastStop.count = 101 /\ wave = "tremor"
    /\ "severityLevel" \in DOMAIN lastStop.record

\* C5: for every series of length 1 to 49, whatever its values,
\* findDominantFrequency returns {frequency: 0, power: 0}.
C5_ShortSeriesNoFrequency ==
    (call.op = "findDominantFrequency" /\ Len(call.data) \in 1..49) =>
        call.result = [frequency |-> 0, power |-> 0]

\* 49 samples of the 5 Hz oscillation, more than two of its periods.
C5_Witness ==
    /\ call.op = "findDominantFrequency" /\ call.kind = "sine" /\ Len(call.data) = 49
    /\ call.result = [frequency |-> 0, power |-> 0]

\* The estimator has been run on the detrended 300-sample 5 Hz series.
EstimatedScenarioB ==
    call.op = "findDominantFrequency" /\ call.kind = "sine" /\ Len(call.data) = 300

\* calculateTremorMetrics has been run on the 300 samples 9.8 + 2 sin(2 pi 5 t).
AnalyzedScenarioB ==
    call.op = "calculateTremorMetrics" /\ call.wave = "tremor" /\ Len(call.input) = 300

\* C6 as stated: for the 300-sample series exactly periodic at 5 Hz, the estimator
\* run on the detrended series selects frequency 5.0 with non-zero power.
C6_ScenarioBSelectsFive ==
    /\ EstimatedScenarioB => (call.result.frequency = 50 /\ call.result.power > 0)
    /\ AnalyzedScenarioB =>
          (call.result.dominantFrequency = 50 /\ call.result.tremorPower > 0)

\* C6: for the 300-sample series exactly periodic at 5 Hz, the estimator run on
\* the detrended series selects frequency 4.8, the first scanned frequency whose
\* lag is the 20 samples of the period, with non-zero power.
C6_ScenarioBSelectsFirstOfLag ==
    /\ EstimatedScenarioB => (call.result.frequency = 48 /\ call.result.power > 0)
    /\ AnalyzedScenarioB =>
          (call.result.dominantFrequency = 48 /\ call.result.tremorPower > 0)

C6_Witness ==
    /\ EstimatedScenarioB
    /\ PeriodOf(call.result.frequency) = 20 /\ call.result.power > 0

\* The records of a localStorage item.
storedIn(saved) == IF saved.item THEN JSONParse(saved) ELSE << >>

\* C7: after saveMeasurement runs, the persisted store holds every record that was
\* persisted before the call, unchanged and in the same order, followed by the new
\* record, whatever the dates of the records already in it.
C7_StoreIsAppendOnly ==
    lastStop # NoStop =>
        storedIn(storage) = storedIn(lastStop.before) \o << stringifyRecord(lastStop.record) >>

\* A session has ended on a store that held a record of the day before: the store
\* now holds today's earlier record and the new one.
C7_Witness ==
    /\ lastStop # NoStop /\ lastStop.before = JSONStringify(PriorRecords)
    /\ storedIn(storage) = << failedMeasurement(1), stringifyRecord(lastStop.record) >>

\* C9: for fixed frequency and power, calculateSeverity is monotonic
\* non-decreasing in rms: for all 0 <= rms1 <= rms2,
\* calculateSeverity(rms1, f, p) <= calculateSeverity(rms2, f, p).
C9_SeverityMonotoneInRms ==
    (call.op = "calculateSeverity" /\ call.rms # NaN) =>
        \A rms2 \in call.rms..MaxRms :
            call.result <= calculateSeverity(rms2, call.frequency, call.power)

\* An rms at the top of the third step, below a larger rms that scores more.
C9_Witness ==
    /\ call.op = "calculateSeverity"
    /\ call.rms = 49 /\ call.frequency = 48 /\ call.power = 100
    /\ call.result = 630
    /\ calculateSeverity(50, call.frequency, call.power) = 790

\* The band of a level: 1 below 2, 2 from 2 to below 4, 3 from 4 to below 7, 4 from 7.
BandOf(level) ==
    IF level < 200 THEN 1 ELSE IF level < 400 THEN 2 ELSE IF level < 700 THEN 3 ELSE 4

BandLabels == << LabelMinimal, LabelMild, LabelModerate, LabelSignificant >>

\* C10: interpretLevel gives every level of [0,10] exactly one label: the
\* minimal/absent one below 2, mild from 2 to below 4, moderate from 4 to below 7,
\* significant from 7, and the four labels differ.
C10_FourBands ==
    /\ Cardinality({BandLabels[b] : b \in 1..4}) = 4
    /\ call.op = "interpretLevel" =>
          /\ call.result = BandLabels[BandOf(call.level)]
          /\ Cardinality({b \in 1..4 : BandLabels[b] = call.result}) = 1

\* The level 2 itself, where the second band begins.
C10_Witness ==
    call.op = "interpretLevel" /\ call.level = 200 /\ call.result = LabelMild

\* calculateTremorMetrics has been run on n >= 50 samples of the same magnitude.
AnalyzedConstantSeries ==
    call.op = "calculateTremorMetrics" /\ call.wave = "still" /\ Len(call.input) >= 50

\* C11: for a series of n >= 50 samples that all have the same magnitude,
\* calculateTremorMetrics returns amplitudeRMS = 0, dominantFrequency = 0 and
\* severityLevel < 2, and interpretLevel of that severity is the minimal/absent label.
C11_ConstantSeriesIsStill ==
    AnalyzedConstantSeries =>
        /\ call.result.amplitudeRMS = 0
        /\ call.result.dominantFrequency = 0
        /\ call.result.severityLevel < 200
        /\ interpretLevel(call.result.severityLevel) = LabelMinimal

\* 200 samples of 9.8 whose sum comes out below 200 * 9.8: the mean is not 9.8,
\* every detrended sample is the same non-zero residue, the correlation is largest
\* at the smallest lag, 12, and its first frequency, 7.7 Hz, is reported.
C11_Witness ==
    /\ AnalyzedConstantSeries /\ Len(call.input) = 200 /\ call.rounding = -1
    /\ call.result.amplitudeRMS > 0
    /\ call.result.dominantFrequency = 77
    /\ call.result.severityLevel = 100

\* What does hold for a constant series, whatever the rounding: the severity is
\* below 2 and its label is the minimal/absent one.
C11_ConstantSeriesIsMinimal ==
    AnalyzedConstantSeries =>
        /\ call.result.severityLevel < 200
        /\ interpretLevel(call.result.severityLevel) = LabelMinimal

\* While a session is monitoring, its buffer holds the samples delivered since it
\* began, in arrival order; once stopMonitoring has run, the series it analysed is
\* those samples, sampling is off and the buffer still holds that series.
FinalSeriesIsTheDelivered ==
    /\ isMonitoring => samples = delivered
    /\ lastStop # NoStop =>
          /\ lastStop.input = delivered
          /\ samples = lastStop.input
          /\ ~isMonitoring /\ ~motionListener

\* The buffer changes only by being emptied when a session begins or by one
\* sample appended at its end while the session is monitoring.
BufferOnlyGrowsInSession ==
    [][samples' # samples =>
          \/ ~isMonitoring /\ isMonitoring' /\ samples' = << >>
          \/ /\ isMonitoring /\ isMonitoring'
             /\ Len(samples') = Len(samples) + 1
             /\ SubSeq(samples', 1, Len(samples)) = samples]_vars

\* C12: the series passed to the final calculateTremorMetrics call of a session is
\* exactly the samples delivered by motion events between the session's start and
\* its stop, in arrival order: the buffer is emptied at session start, is only
\* appended to while isMonitoring is true, and sampling is off (isMonitoring false,
\* listener removed) when the final analysis runs, so that no sample is added
\* after it until the next session starts.
C12_FinalSeriesFrozen ==
    /\ []FinalSeriesIsTheDelivered
    /\ BufferOnlyGrowsInSession

\* A second session has been stopped after three samples, the first one after
\* the 101 samples of a full measurement.
C12_Witness ==
    /\ session = 2 /\ lastStop # NoStop /\ Len(lastStop.input) = 3
    /\ stopRuns[1] = 1 /\ Len(measurements) >= 2
    /\ "severityLevel" \in DOMAIN measurements[Len(measurements) - 1]

\* C13: an auto-stop timeout ends only the session that armed it, so that a
\* session the user does not stop keeps sampling for its own full observation
\* window, also when an earlier session was stopped early and the new one was
\* started before the earlier session's timeout fired.
C13_TimeoutEndsOwnSession ==
    (lastStop # NoStop /\ lastStop.by = "timeout") =>
        Head(lastStop.armed) = lastStop.session

\* The first session was stopped by a click, the second one began while the first
\* timeout was still armed, and that timeout has ended the second session, whose
\* own timeout is still to fire.
C13_Witness ==
    /\ lastStop # NoStop /\ lastStop.by = "timeout"
    /\ lastStop.session = 2 /\ lastStop.armed = << 1, 2 >>
    /\ timers = << 2 >> /\ ~isMonitoring

\* C14: in every state where no session is monitoring and no wake-lock request is
\* pending, no wake lock remains acquired: state.wakeLock is null and every lock
\* granted has been released, however stopMonitoring and the resolution of
\* navigator.wakeLock.request are ordered.
C14_NoLockOutsideSession ==
    (~isMonitoring /\ lockRequests = 0) => (wakeLock = Null /\ locksHeld = 0)

\* The only session was stopped while its request was pending; the request has
\* resolved since and the sentinel it stored is still held.
C14_Witness ==
    /\ session = 1 /\ stopRuns[1] = 1 /\ ~isMonitoring
    /\ lockRequests = 0 /\ wakeLock = "sentinel" /\ locksHeld = 1

\* The candidates of the scan that are valid for a series of n samples.
Candidates(n) == {f \in 30..80 : PeriodOf(f) < n}

\* The largest element of a non-empty set of numbers.
Maximum(S) == CHOOSE m \in S : \A x \in S : x <= m

\* found is the answer the claim describes, given the score corrAt[period] of
\* every lag: the lowest candidate with the maximal score (0 if that is 0), and
\* the maximal score divided by n.
IsFirstMaximum(found, corrAt, n) ==
    \A best \in {Maximum({corrAt[PeriodOf(f)] : f \in Candidates(n)})} :
        /\ found.power = powerOf(best, n)
        /\ IF best = 0
           THEN found.frequency = 0
           ELSE /\ found.frequency \in Candidates(n)
                /\ corrAt[PeriodOf(found.frequency)] = best
                /\ \A f \in Candidates(n) :
                      f < found.frequency => corrAt[PeriodOf(f)] < best

\* C15: on a series that reaches the scan (n >= 50), findDominantFrequency
\* returns the lowest-frequency candidate whose score corr(f), the sum over
\* i = 0 .. n-period-1 of |data[i] * data[i + period]| with period = floor(100 / f),
\* equals the maximum over all valid candidates, frequency 0 when that maximum
\* is 0, and power = maximum / n.
C15_FirstMaximumWins ==
    (call.op = "findDominantFrequency" /\ Len(call.data) >= 50) =>
        \A corrAt \in {[p \in {PeriodOf(f) : f \in Candidates(Len(call.data))} |->
                           Correlation(call.data, p)]} :
            IsFirstMaximum(call.result, corrAt, Len(call.data))

\* The 5 Hz series of 300 samples: 4.8, 4.9 and 5.0 Hz have the maximal score and
\* 4.8 is returned.
C15_Witness ==
    /\ call.op = "findDominantFrequency" /\ call.kind = "sine" /\ Len(call.data) = 300
    /\ call.result.frequency = 48
    /\ Correlation(call.data, PeriodOf(50)) = Correlation(call.data, PeriodOf(48))
    /\ call.result.power = powerOf(Correlation(call.data, PeriodOf(48)), 300)

\* The last engine call was made by the live preview.
PreviewAnalysed ==
    call # NoCall /\ call.op = "calculateTremorMetrics"
        /\ call.caller = "updateRealTimeMetrics"

\* No engine call is made while the session has fewer than 20 samples, and the
\* series the preview analysed is the last 100 (or all, if fewer) of the samples
\* collected when it ran, between 20 and 100 of them.
PreviewWindowInRange ==
    /\ (isMonitoring /\ Len(samples) < 20) => call = NoCall
    /\ PreviewAnalysed =>
        /\ Len(call.input) \in 20..100
        /\ call.collected <= Len(samples)
        /\ Len(call.input) = IF call.collected < 100 THEN call.collected ELSE 100
        /\ call.input = SubSeq(samples, call.collected - Len(call.input) + 1, call.collected)

\* A motion event that leaves fewer than 20 samples collected causes no analysis
\* and leaves the displayed values as they were.
NoPreviewBelow20 ==
    [][(isMonitoring /\ Len(samples') = Len(samples) + 1 /\ Len(samples') < 20) =>
          (call' = call /\ display' = display)]_vars

\* C16: the live preview invokes calculateTremorMetrics only on a copy of the
\* most recent samples whose length is between 20 and 100 inclusive; while fewer
\* than 20 samples have been collected in the session it returns without
\* analysing and without changing the displayed values.
C16_PreviewWindow ==
    /\ []PreviewWindowInRange
    /\ NoPreviewBelow20

\* The preview has run on 105 collected samples: the window is the last 100.
C16_Witness ==
    /\ PreviewAnalysed /\ isMonitoring
    /\ call.collected = 105 /\ Len(call.input) = 100
    /\ call.input = SubSeq(samples, 6, 105)

\* C17: for every (rms, frequency, power) the weighted sum
\* 0.8 * amplitudeScore + 0.1 * frequencyScore + 0.1 * powerScore computed in
\* calculateSeverity already lies in [0,10], so the final clamp never changes it.
C17_ClampNeverActs ==
    call.op = "calculateSeverity" =>
        /\ weightedScore(call.rms, call.frequency, call.power) \in 0..1000
        /\ call.result = weightedScore(call.rms, call.frequency, call.power)

\* The three sub-scores at their largest: the weighted sum is 10 itself.
C17_Witness ==
    /\ call.op = "calculateSeverity"
    /\ amplitudeScore(call.rms) = 1000 /\ frequencyScore(call.frequency) = 1000
    /\ powerScore(call.power) = 1000
    /\ weightedScore(call.rms, call.frequency, call.power) = 1000

\* C18: after any sequence of sessions, sessions that ended too short and stored
\* an error record included, exportData on a non-empty history completes without
\* raising and writes one CSV row for every record of today's history.
C18_ExportCompletes ==
    (exported.ran /\ exported.records > 0) =>
        /\ ~exported.raised
        /\ exported.rows = exported.records
        /\ exported.downloaded

\* A session ended too short on an empty store, and the export that followed
\* raised on the error record before it wrote a row.
C18_Witness ==
    /\ lastStop # NoStop /\ ~lastStop.analyzed /\ lastStop.before = NoItem
    /\ measurements = << failedMeasurement(today) >>
    /\ exported.ran /\ exported.raised /\ exported.rows = 0 /\ exported.records = 1

\* An export of a history of analysed sessions only: every row is written.
C18_WitnessComplete ==
    /\ exported.ran /\ exported.records > 0
    /\ ~exported.raised /\ exported.rows = exported.records /\ exported.downloaded

\* The button takes clicks: its listeners are attached and it is not disabled.
Clickable == appReady /\ ~btnDisabled

\* Exactly one of the two handlers is the click listener, stopMonitoring while a
\* session is monitoring and startMonitoring otherwise.
OneListenerForTheState ==
    Clickable => listeners = IF isMonitoring THEN {"stopMonitoring"} ELSE {"startMonitoring"}

\* A step that runs beginMonitoring starts from a state that is not monitoring.
BeginsOnlyWhenIdle == [][session' # session => ~isMonitoring]_vars

\* A step that runs stopMonitoring's body starts from a state that is monitoring.
StopsOnlyWhenMonitoring == [][stopRuns' # stopRuns => isMonitoring]_vars

\* C19: whenever the start button can be clicked, exactly one of startMonitoring
\* and stopMonitoring is its click listener, and it is stopMonitoring exactly when
\* isMonitoring is true; beginMonitoring never runs while a session is monitoring
\* and stopMonitoring's body never runs while none is, under every interleaving of
\* clicks, permission results and timeouts.
C19_OneHandlerPerState ==
    /\ []OneListenerForTheState
    /\ BeginsOnlyWhenIdle
    /\ StopsOnlyWhenMonitoring

\* The second session was ended by a timeout while the timeout of the first was
\* armed, and the button is back on startMonitoring.
C19_Witness ==
    /\ Clickable /\ session = 2 /\ ~isMonitoring
    /\ lastStop # NoStop /\ lastStop.session = 2 /\ lastStop.by = "timeout"
    /\ Len(lastStop.armed) = 2
    /\ listeners = {"startMonitoring"}
    /\ stopRuns[1] = 1 /\ stopRuns[2] = 1

\* The last engine call was a calculateTremorMetrics call (made directly).
Analysed == call.op = "calculateTremorMetrics"

\* C20: in every Metrics returned by calculateTremorMetrics, dominantFrequency is
\* 0 or one of the scanned candidates 3.0, 3.1, ..., 8.0 Hz (30 .. 80 tenths), and
\* dominantFrequency is 0 exactly when tremorPower is 0, so that the frequency
\* sub-score is 10 exactly when the power is not 0.
C20_FrequencyIffPower ==
    Analysed =>
        /\ call.result.dominantFrequency \in {0} \cup 30..80
        /\ call.result.dominantFrequency = 0 <=> call.result.tremorPower = 0
        /\ frequencyScore(call.result.dominantFrequency) = 1000
               <=> call.result.tremorPower # 0

\* A series long enough for the scan whose power is not 0 and whose frequency is
\* a candidate.
C20_Witness ==
    /\ Analysed /\ Len(call.input) >= 50
    /\ call.result.dominantFrequency \in 30..80
    /\ call.result.tremorPower > 0

\* A series long enough for the scan where every score is 0: frequency and power
\* are both 0.
C20_WitnessZero ==
    /\ Analysed /\ Len(call.input) >= 50
    /\ call.result.dominantFrequency = 0
    /\ call.result.tremorPower = 0

\* The length of the series the last engine call handed to the scan of
\* findDominantFrequency (0: the call made no scan).
ScannedLength ==
    IF call.op = "findDominantFrequency" THEN Len(call.data)
    ELSE IF call.op = "calculateTremorMetrics" THEN Len(call.input)
    ELSE 0

\* C21: for every input of n >= 50 samples, each candidate 30 .. 80 (tenths of Hz)
\* has a lag period = floor(100 / (freq / 10)) between 12 and 33 samples, which is
\* below n: the period >= n test skips no candidate, and every index the
\* correlation loop reads, data[i + period] included, is within 0 .. n-1.
C21_NoCandidateSkipped ==
    ScannedLength >= 50 =>
        /\ \A freq \in 30..80 :
              /\ PeriodOf(freq) \in 12..33
              /\ PeriodOf(freq) < ScannedLength
              /\ readIndices(ScannedLength, PeriodOf(freq)) \subseteq 0..(ScannedLength - 1)
        /\ skippedCandidates(ScannedLength) = {}

\* The shortest series that is scanned, 50 samples: the longest lag, 33 at 3.0 Hz,
\* reads data[0..16] and data[33..49] for its 17 products; the scan returned a
\* candidate.
C21_Witness ==
    /\ call.op = "findDominantFrequency" /\ Len(call.data) = 50
    /\ PeriodOf(30) = 33 /\ PeriodOf(80) = 12
    /\ readIndices(50, 33) = (0..16) \cup (33..49)
    /\ call.result.frequency \in 30..80

====
